---- MODULE Spec2Model ----
(***************************************************************************)
(* State-machine model of the user-management API:                         *)
(*   controllers/userController.js  (the five request handlers)            *)
(*   database/database.js           (schema of users/managers, seed data)  *)
(*                                                                         *)
(* Text values that the code inspects character by character (full_name,   *)
(* mob_num, pan_num) are sequences of one-character strings; identifiers   *)
(* (user_id, manager_id) are strings.  "" is the falsy string.             *)
(*                                                                         *)
(* One step of the model is one turn of the Node event loop for a request: *)
(* either the synchronous part of a handler, or the execution of one SQL   *)
(* statement (atomic in SQLite, autocommit) together with its callback.    *)
(* Statements of different requests interleave freely, except the two      *)
(* statements queued inside db.serialize, which run back to back.          *)
(* The schema declares a FOREIGN KEY, but database.js never issues         *)
(* PRAGMA foreign_keys = ON, so SQLite does not enforce it.                *)
(* res.status(..).json(..) is recorded as one response sent to the client; *)
(* a second call for the same request is recorded as a second response.    *)
(***************************************************************************)
EXTENDS Integers, Sequences, FiniteSets, TLC

VARIABLES users, managers, pc, req, loc, responses, fault, clock, nextId,
          started, serialized, deleted

vars == <<users, managers, pc, req, loc, responses, fault, clock, nextId,
          started, serialized, deleted>>

(* ------------------------------ bounds -------------------------------- *)
\* requests that may be in flight at the same time
NumSlots == 2
\* requests accepted in one behaviour
MaxRequests == 3

Slots == 1..NumSlots

(* ------------------------- program constants -------------------------- *)
\* .slice(-10) and length !== 10
MobLen == 10
\* /^[A-Z]{5}[0-9]{4}[A-Z]{1}$/
PanLetters == 5
PanDigits == 4
PanTail == 1

(* ------------------------------ text ---------------------------------- *)
Digits == {"0", "1", "2", "3", "4", "5", "6", "7", "8", "9"}
LowerLetters == <<"a", "b", "c", "d", "e", "f", "g", "h", "i", "j", "k", "l", "m",
                  "n", "o", "p", "q", "r", "s", "t", "u", "v", "w", "x", "y", "z">>
UpperLetters == <<"A", "B", "C", "D", "E", "F", "G", "H", "I", "J", "K", "L", "M",
                  "N", "O", "P", "Q", "R", "S", "T", "U", "V", "W", "X", "Y", "Z">>
UpperSet == {UpperLetters[k] : k \in 1..Len(UpperLetters)}
Whitespace == {" "}

IsDigit(c) == c \in Digits

\* String.prototype.toUpperCase
toUpperCase(s) ==
    [i \in 1..Len(s) |->
        IF \E k \in 1..Len(LowerLetters) : LowerLetters[k] = s[i]
        THEN UpperLetters[CHOOSE k \in 1..Len(LowerLetters) : LowerLetters[k] = s[i]]
        ELSE s[i]]

\* s.slice(-n)
sliceLast(s, n) == IF Len(s) <= n THEN s ELSE SubSeq(s, Len(s) - n + 1, Len(s))

\* mob_num.replace(/\D/g, '').slice(-10)
formatMobNum(s) == sliceLast(SelectSeq(s, IsDigit), MobLen)

\* panRegex.test(s)
panRegexTest(s) ==
    /\ Len(s) = PanLetters + PanDigits + PanTail
    /\ \A i \in 1..PanLetters : s[i] \in UpperSet
    /\ \A i \in (PanLetters + 1)..(PanLetters + PanDigits) : s[i] \in Digits
    /\ \A i \in (PanLetters + PanDigits + 1)..Len(s) : s[i] \in UpperSet

\* !full_name || full_name.trim().length === 0
isBlank(s) == \A i \in 1..Len(s) : s[i] \in Whitespace

\* JavaScript truthiness of a string value
Truthy(v) == v # ""

(* ---------------------------- validation ------------------------------ *)
checkMissingKeys(body, requiredKeys) == {k \in requiredKeys : k \notin DOMAIN body}

\* mutant: the values checked are normalized, the values returned are the raw ones
validateUser_returnsRaw(full_name, mob_num, pan_num) ==
    IF isBlank(full_name)
    THEN [isValid |-> FALSE, mob_num |-> <<>>, pan_num |-> <<>>]
    ELSE IF Len(formatMobNum(mob_num)) # MobLen
    THEN [isValid |-> FALSE, mob_num |-> <<>>, pan_num |-> <<>>]
    ELSE IF ~panRegexTest(toUpperCase(pan_num))
    THEN [isValid |-> FALSE, mob_num |-> <<>>, pan_num |-> <<>>]
    ELSE [isValid |-> TRUE, mob_num |-> mob_num, pan_num |-> pan_num]

\* mutant: the PAN pattern test forgotten
validateUser_noPanCheck(full_name, mob_num, pan_num) ==
    IF isBlank(full_name)
    THEN [isValid |-> FALSE, mob_num |-> <<>>, pan_num |-> <<>>]
    ELSE IF Len(formatMobNum(mob_num)) # MobLen
    THEN [isValid |-> FALSE, mob_num |-> <<>>, pan_num |-> <<>>]
    ELSE [isValid |-> TRUE, mob_num |-> formatMobNum(mob_num),
          pan_num |-> toUpperCase(pan_num)]

validateUser(full_name, mob_num, pan_num) ==
    IF isBlank(full_name)
    THEN [isValid |-> FALSE, mob_num |-> <<>>, pan_num |-> <<>>]
    ELSE IF Len(formatMobNum(mob_num)) # MobLen
    THEN [isValid |-> FALSE, mob_num |-> <<>>, pan_num |-> <<>>]
    ELSE IF ~panRegexTest(toUpperCase(pan_num))
    THEN [isValid |-> FALSE, mob_num |-> <<>>, pan_num |-> <<>>]
    ELSE [isValid |-> TRUE, mob_num |-> formatMobNum(mob_num),
          pan_num |-> toUpperCase(pan_num)]

validUpdateKeys == {"full_name", "mob_num", "pan_num", "manager_id"}

\* one case of the switch in validateUpdate: is the field acceptable
updateFieldValid(updateData, key) ==
    CASE key = "full_name" -> ~isBlank(updateData.full_name)
      [] key = "mob_num" -> Len(formatMobNum(updateData.mob_num)) = MobLen
      [] key = "pan_num" -> panRegexTest(toUpperCase(updateData.pan_num))
      [] key = "manager_id" -> TRUE
      [] OTHER -> FALSE

\* one case of the switch in validateUpdate: the value written to validatedData
updateFieldValue(updateData, key) ==
    CASE key = "full_name" -> updateData.full_name
      [] key = "mob_num" -> formatMobNum(updateData.mob_num)
      [] key = "pan_num" -> toUpperCase(updateData.pan_num)
      [] OTHER -> updateData[key]

validateUpdate(updateData) ==
    IF \E key \in DOMAIN updateData :
          key \notin validUpdateKeys \/ ~updateFieldValid(updateData, key)
    THEN [isValid |-> FALSE, validatedData |-> <<>>]
    ELSE IF DOMAIN updateData = {}
    THEN [isValid |-> FALSE, validatedData |-> <<>>]
    ELSE [isValid |-> TRUE,
          validatedData |-> [key \in DOMAIN updateData |-> updateFieldValue(updateData, key)]]

(* ------------------------------ store --------------------------------- *)
\* prefillManagers: two active managers and one inactive
SeedManagers ==
    { [manager_id |-> "m1", manager_name |-> "Manager A", is_active |-> 1],
      [manager_id |-> "m2", manager_name |-> "Manager B", is_active |-> 1],
      [manager_id |-> "m3", manager_name |-> "Inactive Manager", is_active |-> 0] }

\* uuidv4(): a value no earlier call returned
uuidv4 == "u" \o ToString(nextId)

\* mutant: pan_num declared without UNIQUE
usersConstraintViolated_panNotUnique(tbl) ==
    \E a \in tbl, b \in tbl :
        /\ a # b
        /\ \/ a.user_id = b.user_id
           \/ a.mob_num = b.mob_num

\* users: PRIMARY KEY(user_id), UNIQUE(mob_num), UNIQUE(pan_num)
usersConstraintViolated(tbl) ==
    \E a \in tbl, b \in tbl :
        /\ a # b
        /\ \/ a.user_id = b.user_id
           \/ a.mob_num = b.mob_num
           \/ a.pan_num = b.pan_num

\* outcome of a statement: err, the table after it, this.changes
sqlFailed(tbl) == [err |-> TRUE, table |-> tbl, changes |-> 0]

\* INSERT INTO users (...) VALUES (...)
sqlInsertUser(tbl, row) ==
    IF \/ \E u \in tbl : u.user_id = row.user_id
       \/ usersConstraintViolated(tbl \cup {row})
    THEN sqlFailed(tbl)
    ELSE [err |-> FALSE, table |-> tbl \cup {row}, changes |-> 1]

\* SELECT is_active FROM managers WHERE manager_id = ?
sqlSelectManager(tbl, manager_id) == {m \in tbl : m.manager_id = manager_id}

\* mutant: if (!row) only, the is_active test forgotten
managerIsActive_rowOnly(rows) == rows # {}

\* if (!row || !row.is_active) is false
managerIsActive(rows) == \E m \in rows : m.is_active = 1

\* mutant: only the active managers are selected
sqlSelectManagers_activeOnly(tbl) == {m \in tbl : m.is_active = 1}

\* SELECT manager_id, manager_name, is_active FROM managers
sqlSelectManagers(tbl) == tbl

\* SELECT * FROM users WHERE is_active = 1 [AND user_id = ?] [AND mob_num LIKE ?] [AND manager_id = ?]
isSuffix(suffix, s) ==
    /\ Len(suffix) <= Len(s)
    /\ SubSeq(s, Len(s) - Len(suffix) + 1, Len(s)) = suffix

\* mutant: the WHERE is_active = 1 of the query forgotten
sqlSelectUsers_anyState(tbl, body) ==
    { u \in tbl :
        /\ ("user_id" \in DOMAIN body /\ Truthy(body.user_id)) => u.user_id = body.user_id
        /\ ("mob_num" \in DOMAIN body /\ body.mob_num # <<>>)
              => isSuffix(formatMobNum(body.mob_num), u.mob_num)
        /\ ("manager_id" \in DOMAIN body /\ Truthy(body.manager_id))
              => u.manager_id = body.manager_id }

sqlSelectUsers(tbl, body) ==
    { u \in tbl :
        /\ u.is_active = 1
        /\ ("user_id" \in DOMAIN body /\ Truthy(body.user_id)) => u.user_id = body.user_id
        /\ ("mob_num" \in DOMAIN body /\ body.mob_num # <<>>)
              => isSuffix(formatMobNum(body.mob_num), u.mob_num)
        /\ ("manager_id" \in DOMAIN body /\ Truthy(body.manager_id))
              => u.manager_id = body.manager_id }

\* mutant: the AND is_active = 1 of the lookup forgotten
sqlSelectActiveUser_anyState(tbl, user_id) == {u \in tbl : u.user_id = user_id}

\* SELECT * FROM users WHERE user_id = ? AND is_active = 1
sqlSelectActiveUser(tbl, user_id) == {u \in tbl : u.user_id = user_id /\ u.is_active = 1}

\* mutant: mob_num compared as sent, formatMobNum forgotten
deleteMatches_rawMobNum(u, body) ==
    IF "user_id" \in DOMAIN body /\ Truthy(body.user_id)
    THEN u.user_id = body.user_id
    ELSE u.mob_num = body.mob_num

\* the rows a DELETE FROM users WHERE user_id = ? / WHERE mob_num = ? names
deleteMatches(u, body) ==
    IF "user_id" \in DOMAIN body /\ Truthy(body.user_id)
    THEN u.user_id = body.user_id
    ELSE u.mob_num = formatMobNum(body.mob_num)

sqlDeleteUsers(tbl, body) ==
    [err |-> FALSE, table |-> {u \in tbl : ~deleteMatches(u, body)},
     changes |-> Cardinality({u \in tbl : deleteMatches(u, body)})]

\* mutant: the bulk UPDATE also sets is_active = 1
sqlBulkUpdate_reactivates(tbl, manager_id, now, user_ids) ==
    LET ids == {user_ids[i] : i \in 1..Len(user_ids)}
    IN [err |-> FALSE,
        table |-> { IF u.user_id \in ids
                    THEN [u EXCEPT !.manager_id = manager_id, !.updated_at = now,
                                   !.is_active = 1]
                    ELSE u : u \in tbl },
        changes |-> Cardinality({u \in tbl : u.user_id \in ids})]

\* mutant: the bulk UPDATE restricted to active rows (AND is_active = 1)
sqlBulkUpdate_activeOnly(tbl, manager_id, now, user_ids) ==
    LET ids == {user_ids[i] : i \in 1..Len(user_ids)}
    IN [err |-> FALSE,
        table |-> { IF u.user_id \in ids /\ u.is_active = 1
                    THEN [u EXCEPT !.manager_id = manager_id, !.updated_at = now]
                    ELSE u : u \in tbl },
        changes |-> Cardinality({u \in tbl : u.user_id \in ids /\ u.is_active = 1})]

\* UPDATE users SET manager_id = ?, updated_at = ? WHERE user_id IN (...)
sqlBulkUpdate(tbl, manager_id, now, user_ids) ==
    LET ids == {user_ids[i] : i \in 1..Len(user_ids)}
    IN [err |-> FALSE,
        table |-> { IF u.user_id \in ids
                    THEN [u EXCEPT !.manager_id = manager_id, !.updated_at = now]
                    ELSE u : u \in tbl },
        changes |-> Cardinality({u \in tbl : u.user_id \in ids})]

\* UPDATE users SET is_active = 0, updated_at = ? WHERE user_id = ?
sqlDeactivate(tbl, now, user_id) ==
    [err |-> FALSE,
     table |-> { IF u.user_id = user_id
                 THEN [u EXCEPT !.is_active = 0, !.updated_at = now]
                 ELSE u : u \in tbl },
     changes |-> Cardinality({u \in tbl : u.user_id = user_id})]

\* the SET list built from validatedData, plus updated_at
applyFields(u, validatedData, now) ==
    [f \in DOMAIN u |->
        IF f \in DOMAIN validatedData THEN validatedData[f]
        ELSE IF f = "updated_at" THEN now
        ELSE u[f]]

\* UPDATE users SET <fields>, updated_at = ? WHERE user_id = ?
sqlUpdateFields(tbl, validatedData, now, user_id) ==
    LET after == { IF u.user_id = user_id THEN applyFields(u, validatedData, now) ELSE u :
                   u \in tbl }
    IN IF usersConstraintViolated(after)
       THEN sqlFailed(tbl)
       ELSE [err |-> FALSE, table |-> after,
             changes |-> Cardinality({u \in tbl : u.user_id = user_id})]

(* ---------------------------- request inputs -------------------------- *)
NameA == <<"A", "s", "h", "a">>
NameB == <<"R", "a", "v", "i">>
NameBlank == <<" ">>
\* "+91-98765-43210" and its normal form "9876543210"
MobARaw == <<"+", "9", "1", "-", "9", "8", "7", "6", "5", "-", "4", "3", "2", "1", "0">>
MobA == <<"9", "8", "7", "6", "5", "4", "3", "2", "1", "0">>
\* "09123456780" and its normal form "9123456780"
MobBRaw == <<"0", "9", "1", "2", "3", "4", "5", "6", "7", "8", "0">>
MobB == <<"9", "1", "2", "3", "4", "5", "6", "7", "8", "0">>
MobShort == <<"1", "2", "3", "4", "5">>
\* "abcde1234f" and its normal form "ABCDE1234F"
PanARaw == <<"a", "b", "c", "d", "e", "1", "2", "3", "4", "f">>
PanA == <<"A", "B", "C", "D", "E", "1", "2", "3", "4", "F">>
PanB == <<"P", "Q", "R", "S", "T", "5", "6", "7", "8", "U">>
PanBad == <<"A", "B", "C", "D", "1", "2", "3", "4", "5", "F">>

\* manager_id values a client may send: active, inactive, unknown, falsy
CreateManagerInputs == {"m1", "m3", "m9", ""}
UpdateManagerInputs == {"m2", "m3", "m9", ""}

CreateBodies ==
    { [full_name |-> p[1], mob_num |-> p[2], pan_num |-> p[3], manager_id |-> g] :
        p \in { <<NameA, MobARaw, PanARaw>>, <<NameB, MobBRaw, PanB>>,
                <<NameB, MobA, PanB>> },
        g \in CreateManagerInputs }
    \cup
    { [full_name |-> NameBlank, mob_num |-> MobA, pan_num |-> PanA, manager_id |-> "m1"],
      [full_name |-> NameA, mob_num |-> MobShort, pan_num |-> PanA, manager_id |-> "m1"],
      [full_name |-> NameA, mob_num |-> MobA, pan_num |-> PanBad, manager_id |-> "m1"],
      [full_name |-> NameA, mob_num |-> MobA, pan_num |-> PanA] }

GetBodies ==
    { <<>>, [user_id |-> "u1"], [mob_num |-> MobARaw], [manager_id |-> "m1"],
      [mob_num |-> <<"8", "0">>, manager_id |-> "m2"] }

DeleteBodies ==
    { <<>>, [user_id |-> "u1"], [user_id |-> "u9"], [mob_num |-> MobARaw],
      [user_id |-> "", mob_num |-> MobBRaw], [user_id |-> "u1", mob_num |-> MobBRaw] }

UserIdLists == { <<>>, <<"u1">>, <<"u2">>, <<"u1", "u2">>, <<"u2", "u9">> }

UpdateDatas ==
    { [manager_id |-> g] : g \in UpdateManagerInputs }
    \cup
    { [full_name |-> NameB], [mob_num |-> MobBRaw], [mob_num |-> MobBRaw, pan_num |-> PanB],
      [pan_num |-> PanBad], [full_name |-> NameBlank],
      [full_name |-> NameB, manager_id |-> "m2"],
      [full_name |-> NameB, manager_id |-> ""],
      [full_name |-> NameB, role |-> "admin"],
      <<>> }

UpdateBodies ==
    { [user_ids |-> ids, update_data |-> d] : ids \in UserIdLists, d \in UpdateDatas }
    \cup { [user_ids |-> <<"u1">>] }

(* ------------------------------ requests ------------------------------ *)
NoReq == [op |-> "none", body |-> <<>>]
NoLoc == [id |-> "", t1 |-> 0, t2 |-> 0, rows |-> {}]

\* routes/userRoutes.js: the five POST routes and the bodies clients send
Requests ==
    {[op |-> "create_user", body |-> b] : b \in CreateBodies}
    \cup {[op |-> "get_users", body |-> b] : b \in GetBodies}
    \cup {[op |-> "delete_user", body |-> b] : b \in DeleteBodies}
    \cup {[op |-> "update_user", body |-> b] : b \in UpdateBodies}
    \cup {[op |-> "get_managers", body |-> <<>>]}

\* the arguments of one res.status(status).json({...}) call
Resp(status, kind) ==
    [op |-> "", status |-> status, kind |-> kind, id |-> "", count |-> 0, rows |-> {}]

Init ==
    /\ users = {}
    /\ managers = SeedManagers
    /\ pc = [r \in Slots |-> "idle"]
    /\ req = [r \in Slots |-> NoReq]
    /\ loc = [r \in Slots |-> NoLoc]
    /\ responses = [r \in Slots |-> <<>>]
    /\ fault = [r \in Slots |-> FALSE]
    /\ clock = 1
    /\ nextId = 1
    /\ started = 0
    /\ serialized = 0
    /\ deleted = {}

\* a request arrives, takes the lowest free slot and is routed to its handler
Receive(r) ==
    /\ pc[r] = "idle"
    /\ started < MaxRequests
    /\ \A q \in Slots : q < r => pc[q] # "idle"
    /\ \E rq \in Requests : req' = [req EXCEPT ![r] = rq]
    /\ started' = started + 1
    /\ pc' = [pc EXCEPT ![r] = "routed"]
    /\ UNCHANGED <<users, managers, loc, responses, fault, clock, nextId, serialized, deleted>>

\* the handler of request r starts
Handles(r, op) == pc[r] = "routed" /\ req[r].op = op

\* res.status(..).json(..) of request r
Send(r, resp) ==
    responses' = [responses EXCEPT ![r] = Append(@, [resp EXCEPT !.op = req[r].op])]

\* return res.status(..).json(..): nothing of the request is left to run
Reply(r, resp) ==
    /\ Send(r, resp)
    /\ pc' = [pc EXCEPT ![r] = "done"]
    /\ req' = [req EXCEPT ![r] = NoReq]
    /\ loc' = [loc EXCEPT ![r] = NoLoc]

\* the next statement of the request is queued, with the locals its callback closes over
Goto(r, label, locals) ==
    /\ pc' = [pc EXCEPT ![r] = label]
    /\ loc' = [loc EXCEPT ![r] = locals]
    /\ UNCHANGED <<responses, req>>

\* a statement of request r is the next one the database runs
Runs(r, label) == pc[r] = label /\ serialized = 0

\* the statement fails for a reason outside the program (I/O, busy, ...)
StoreFails(r) == fault' = [fault EXCEPT ![r] = TRUE]

\* history variable `deleted`: the mob_num and pan_num of the users a
\* delete_user answered with success has removed and no create_user has
\* inserted again since
DeletedPairs(rows) == {<<u.mob_num, u.pan_num>> : u \in rows}

\* the entries of `deleted` whose mob_num or pan_num one of these rows carries
CarriedBy(rows) == {d \in deleted : \E u \in rows : u.mob_num = d[1] \/ u.pan_num = d[2]}

(* ----------------------------- createUser ----------------------------- *)
createUserRow(body, v, user_id, now) ==
    [user_id |-> user_id, full_name |-> body.full_name, mob_num |-> v.mob_num,
     pan_num |-> v.pan_num, manager_id |-> body.manager_id,
     created_at |-> now, updated_at |-> now, is_active |-> 1]

createUser(r) ==
    /\ Handles(r, "create_user")
    /\ LET body == req[r].body
       IN IF checkMissingKeys(body, {"full_name", "mob_num", "pan_num", "manager_id"}) # {}
          THEN Reply(r, Resp(400, "ValidationError"))
          ELSE IF ~validateUser(body.full_name, body.mob_num, body.pan_num).isValid
          THEN Reply(r, Resp(400, "ValidationError"))
          ELSE Goto(r, "create_manager", NoLoc)
    /\ UNCHANGED <<users, managers, fault, clock, nextId, started, serialized, deleted>>

createUser_manager(r) ==
    /\ Runs(r, "create_manager")
    /\ \/ /\ StoreFails(r)
          /\ Reply(r, Resp(500, "InternalError"))
          /\ UNCHANGED <<clock, nextId>>
       \/ /\ UNCHANGED fault
          /\ IF ~managerIsActive(sqlSelectManager(managers, req[r].body.manager_id))
             THEN /\ Reply(r, Resp(400, "ManagerInactiveOrMissing"))
                  /\ UNCHANGED <<clock, nextId>>
             ELSE /\ Goto(r, "create_insert", [NoLoc EXCEPT !.id = uuidv4, !.t1 = clock])
                  /\ nextId' = nextId + 1
                  /\ clock' = clock + 1
    /\ UNCHANGED <<users, managers, started, serialized, deleted>>

createUser_insert(r) ==
    /\ Runs(r, "create_insert")
    /\ LET body == req[r].body
           v == validateUser(body.full_name, body.mob_num, body.pan_num)
           res == sqlInsertUser(users, createUserRow(body, v, loc[r].id, loc[r].t1))
       IN \/ /\ StoreFails(r)
             /\ Reply(r, Resp(500, "InternalError"))
             /\ UNCHANGED <<users, deleted>>
          \/ /\ UNCHANGED fault
             /\ users' = res.table
             /\ deleted' = deleted \ CarriedBy(users' \ users)
             /\ IF res.err
                THEN Reply(r, Resp(500, "InternalError"))
                ELSE Reply(r, [Resp(201, "Success") EXCEPT !.id = loc[r].id])
    /\ UNCHANGED <<managers, clock, nextId, started, serialized>>

(* ------------------------------ getUsers ------------------------------ *)
getUsers(r) ==
    /\ Handles(r, "get_users")
    /\ Goto(r, "users_all", NoLoc)
    /\ UNCHANGED <<users, managers, fault, clock, nextId, started, serialized, deleted>>

getUsers_all(r) ==
    /\ Runs(r, "users_all")
    /\ \/ /\ StoreFails(r)
          /\ Reply(r, Resp(500, "InternalError"))
       \/ /\ UNCHANGED fault
          /\ Reply(r, [Resp(200, "Success") EXCEPT !.rows = sqlSelectUsers(users, req[r].body)])
    /\ UNCHANGED <<users, managers, clock, nextId, started, serialized, deleted>>

(* ----------------------------- deleteUser ----------------------------- *)
\* !req.body.user_id && !req.body.mob_num
deleteKeysMissing(body) ==
    /\ ~("user_id" \in DOMAIN body /\ Truthy(body.user_id))
    /\ ~("mob_num" \in DOMAIN body /\ body.mob_num # <<>>)

deleteUser(r) ==
    /\ Handles(r, "delete_user")
    /\ IF deleteKeysMissing(req[r].body)
       THEN Reply(r, Resp(400, "ValidationError"))
       ELSE Goto(r, "delete_run", NoLoc)
    /\ UNCHANGED <<users, managers, fault, clock, nextId, started, serialized, deleted>>

deleteUser_run(r) ==
    /\ Runs(r, "delete_run")
    /\ LET res == sqlDeleteUsers(users, req[r].body)
       IN \/ /\ StoreFails(r)
             /\ Reply(r, Resp(500, "InternalError"))
             /\ UNCHANGED <<users, deleted>>
          \/ /\ UNCHANGED fault
             /\ users' = res.table
             /\ deleted' = deleted \cup DeletedPairs(users \ users')
             /\ IF res.changes = 0
                THEN Reply(r, Resp(404, "NotFound"))
                ELSE Reply(r, Resp(200, "Success"))
    /\ UNCHANGED <<managers, clock, nextId, started, serialized>>

(* ----------------------------- updateUser ----------------------------- *)
\* user_ids[0]
firstId(user_ids) == IF Len(user_ids) > 0 THEN user_ids[1] ELSE "undefined"

\* update_data.manager_id is truthy
hasManagerId(update_data) ==
    "manager_id" \in DOMAIN update_data /\ Truthy(update_data.manager_id)

\* mutant: the Object.keys(update_data).length === 1 test forgotten
isBulkReassign_anyPayload(user_ids, update_data) ==
    /\ hasManagerId(update_data)
    /\ Len(user_ids) > 1

\* Object.keys(update_data).length === 1 && update_data.manager_id && user_ids.length > 1
isBulkReassign(user_ids, update_data) ==
    /\ Cardinality(DOMAIN update_data) = 1
    /\ hasManagerId(update_data)
    /\ Len(user_ids) > 1

updateUser(r) ==
    /\ Handles(r, "update_user")
    /\ LET body == req[r].body
       IN IF checkMissingKeys(body, {"user_ids", "update_data"}) # {}
          THEN Reply(r, Resp(400, "ValidationError")) /\ UNCHANGED clock
          ELSE IF DOMAIN body.update_data \ validUpdateKeys # {}
          THEN Reply(r, Resp(400, "ValidationError")) /\ UNCHANGED clock
          ELSE IF ~validateUpdate(body.update_data).isValid
          THEN Reply(r, Resp(400, "ValidationError")) /\ UNCHANGED clock
          ELSE IF isBulkReassign(body.user_ids, body.update_data)
          THEN Goto(r, "bulk_manager", NoLoc) /\ UNCHANGED clock
          ELSE IF Len(body.user_ids) > 1
          THEN Reply(r, Resp(400, "UnsupportedBulkOperation")) /\ UNCHANGED clock
          ELSE IF hasManagerId(body.update_data)
          THEN Goto(r, "history_manager", NoLoc) /\ UNCHANGED clock
          ELSE /\ Goto(r, "field_run", [NoLoc EXCEPT !.id = firstId(body.user_ids), !.t1 = clock])
               /\ clock' = clock + 1
    /\ UNCHANGED <<users, managers, fault, nextId, started, serialized, deleted>>

\* bulk reassignment: manager check, then one UPDATE ... WHERE user_id IN (...)
updateUser_bulkManager(r) ==
    /\ Runs(r, "bulk_manager")
    /\ \/ /\ StoreFails(r)
          /\ Reply(r, Resp(500, "InternalError"))
          /\ UNCHANGED clock
       \/ /\ UNCHANGED fault
          /\ IF ~managerIsActive(sqlSelectManager(managers, req[r].body.update_data.manager_id))
             THEN /\ Reply(r, Resp(400, "ManagerInactiveOrMissing"))
                  /\ UNCHANGED clock
             ELSE /\ Goto(r, "bulk_run", [NoLoc EXCEPT !.t1 = clock])
                  /\ clock' = clock + 1
    /\ UNCHANGED <<users, managers, nextId, started, serialized, deleted>>

updateUser_bulkRun(r) ==
    /\ Runs(r, "bulk_run")
    /\ LET body == req[r].body
           res == sqlBulkUpdate(users, body.update_data.manager_id, loc[r].t1, body.user_ids)
       IN \/ /\ StoreFails(r)
             /\ Reply(r, Resp(500, "InternalError"))
             /\ UNCHANGED users
          \/ /\ UNCHANGED fault
             /\ users' = res.table
             /\ Reply(r, [Resp(200, "Success") EXCEPT !.count = res.changes])
    /\ UNCHANGED <<managers, clock, nextId, started, serialized, deleted>>

\* history-preserving reassignment: manager check, read, then deactivate and insert
updateUser_historyManager(r) ==
    /\ Runs(r, "history_manager")
    /\ \/ /\ StoreFails(r)
          /\ Reply(r, Resp(500, "InternalError"))
       \/ /\ UNCHANGED fault
          /\ IF ~managerIsActive(sqlSelectManager(managers, req[r].body.update_data.manager_id))
             THEN Reply(r, Resp(400, "ManagerInactiveOrMissing"))
             ELSE Goto(r, "history_user", NoLoc)
    /\ UNCHANGED <<users, managers, clock, nextId, started, serialized, deleted>>

updateUser_historyUser(r) ==
    /\ Runs(r, "history_user")
    /\ LET user_id == firstId(req[r].body.user_ids)
           found == sqlSelectActiveUser(users, user_id)
       IN \/ /\ StoreFails(r)
             /\ Reply(r, Resp(500, "InternalError"))
             /\ UNCHANGED <<clock, nextId>>
          \/ /\ UNCHANGED fault
             /\ IF found = {}
                THEN /\ Reply(r, Resp(404, "NotFound"))
                     /\ UNCHANGED <<clock, nextId>>
                ELSE /\ Goto(r, "history_deactivate",
                             [id |-> uuidv4, t1 |-> clock, t2 |-> clock + 1, rows |-> found])
                     /\ nextId' = nextId + 1
                     /\ clock' = clock + 2
    /\ UNCHANGED <<users, managers, started, serialized, deleted>>

\* first statement of db.serialize: its callback answers only when it fails,
\* and the INSERT queued behind it runs in either case
updateUser_historyDeactivate(r) ==
    /\ Runs(r, "history_deactivate")
    /\ \/ /\ StoreFails(r)
          /\ Send(r, Resp(500, "InternalError"))
          /\ UNCHANGED users
       \/ /\ UNCHANGED <<fault, responses>>
          /\ users' = sqlDeactivate(users, loc[r].t1, firstId(req[r].body.user_ids)).table
    /\ pc' = [pc EXCEPT ![r] = "history_insert"]
    /\ serialized' = r
    /\ UNCHANGED <<managers, req, loc, clock, nextId, started, deleted>>

historyRow(user, newUser_id, newManagerId, now) ==
    [user_id |-> newUser_id, full_name |-> user.full_name, mob_num |-> user.mob_num,
     pan_num |-> user.pan_num, manager_id |-> newManagerId,
     created_at |-> now, updated_at |-> now, is_active |-> 1]

\* second statement of db.serialize
updateUser_historyInsert(r) ==
    /\ pc[r] = "history_insert"
    /\ serialized = r
    /\ LET user == CHOOSE u \in loc[r].rows : TRUE
           row == historyRow(user, loc[r].id, req[r].body.update_data.manager_id, loc[r].t2)
           res == sqlInsertUser(users, row)
       IN \/ /\ StoreFails(r)
             /\ Reply(r, Resp(500, "InternalError"))
             /\ UNCHANGED users
          \/ /\ UNCHANGED fault
             /\ users' = res.table
             /\ IF res.err
                THEN Reply(r, Resp(500, "InternalError"))
                ELSE Reply(r, [Resp(200, "Success") EXCEPT !.id = loc[r].id])
    /\ serialized' = 0
    /\ UNCHANGED <<managers, clock, nextId, started, deleted>>

\* single-user field update: one UPDATE ... WHERE user_id = ?
updateUser_fieldRun(r) ==
    /\ Runs(r, "field_run")
    /\ LET vd == validateUpdate(req[r].body.update_data).validatedData
           res == sqlUpdateFields(users, vd, loc[r].t1, loc[r].id)
       IN \/ /\ StoreFails(r)
             /\ Reply(r, Resp(500, "InternalError"))
             /\ UNCHANGED users
          \/ /\ UNCHANGED fault
             /\ users' = res.table
             /\ IF res.err
                THEN Reply(r, Resp(500, "InternalError"))
                ELSE IF res.changes = 0
                THEN Reply(r, Resp(404, "NotFound"))
                ELSE Reply(r, Resp(200, "Success"))
    /\ UNCHANGED <<managers, clock, nextId, started, serialized, deleted>>

(* ----------------------------- getManagers ---------------------------- *)
getManagers(r) ==
    /\ Handles(r, "get_managers")
    /\ Goto(r, "managers_all", NoLoc)
    /\ UNCHANGED <<users, managers, fault, clock, nextId, started, serialized, deleted>>

getManagers_all(r) ==
    /\ Runs(r, "managers_all")
    /\ \/ /\ StoreFails(r)
          /\ Reply(r, Resp(500, "InternalError"))
       \/ /\ UNCHANGED fault
          /\ Reply(r, [Resp(200, "Success") EXCEPT !.rows = sqlSelectManagers(managers)])
    /\ UNCHANGED <<users, managers, clock, nextId, started, serialized, deleted>>

(* ------------------------------ scheduling ---------------------------- *)
\* the response has gone out: the slot is free for the next request
Release(r) ==
    /\ pc[r] = "done"
    /\ pc' = [pc EXCEPT ![r] = "idle"]
    /\ responses' = [responses EXCEPT ![r] = <<>>]
    /\ fault' = [fault EXCEPT ![r] = FALSE]
    /\ UNCHANGED <<users, managers, req, loc, clock, nextId, started, serialized, deleted>>

Next ==
    \E r \in Slots :
        \/ Receive(r)
        \/ createUser(r)
        \/ createUser_manager(r)
        \/ createUser_insert(r)
        \/ getUsers(r)
        \/ getUsers_all(r)
        \/ deleteUser(r)
        \/ deleteUser_run(r)
        \/ updateUser(r)
        \/ updateUser_bulkManager(r)
        \/ updateUser_bulkRun(r)
        \/ updateUser_historyManager(r)
        \/ updateUser_historyUser(r)
        \/ updateUser_historyDeactivate(r)
        \/ updateUser_historyInsert(r)
        \/ updateUser_fieldRun(r)
        \/ getManagers(r)
        \/ getManagers_all(r)
        \/ Release(r)

Spec == Init /\ [][Next]_vars

(* =============================== claims =============================== *)
\* the last response request r has been sent
LastResp(resp) == resp[Len(resp)]

\* request r takes the step that leaves label `from`
Leaves(r, from) == pc[r] = from /\ pc'[r] # from

\* ids of the rows of a table
IdsOf(tbl) == {u.user_id : u \in tbl}

\* the manager table holds an active manager with this id
ActiveManager(g) == \E m \in managers : m.manager_id = g /\ m.is_active = 1

\* v is u with at most the listed columns changed
SameExcept(u, v, cols) == \A f \in DOMAIN u \ cols : v[f] = u[f]

(* C1: when a single-id update_user whose manager_id names an active manager *)
(* has read its existing active target row and no statement of it failed    *)
(* for an outside reason, the request ends in success with the old row      *)
(* still stored under its id with is_active = 0 and exactly one new row,    *)
(* active, with a fresh id, the old row's full_name, mob_num and pan_num    *)
(* and the new manager_id.                                                  *)
C1_ReassignmentKeepsHistory ==
    [][\A r \in Slots :
          (Leaves(r, "history_insert") /\ ~fault'[r]) =>
              LET old == CHOOSE u \in loc[r].rows : TRUE
                  added == {n \in users' : n.user_id \notin IdsOf(users)}
              IN /\ LastResp(responses'[r]).status = 200
                 /\ \E o \in users' : o.user_id = old.user_id /\ o.is_active = 0
                 /\ Cardinality(added) = 1
                 /\ \A n \in added :
                       /\ n.is_active = 1
                       /\ n.full_name = old.full_name
                       /\ n.mob_num = old.mob_num
                       /\ n.pan_num = old.pan_num
                       /\ n.manager_id = req[r].body.update_data.manager_id]_vars

(* C2: when the history-preserving reassignment is answered, the store      *)
(* holds all of it (target row inactive and the replacement row present) or *)
(* none of it (target row as it was read and no replacement row); never a   *)
(* deactivated target without a replacement.                                *)
C2_ReassignmentAtomic ==
    [][\A r \in Slots :
          Leaves(r, "history_insert") =>
              LET old == CHOOSE u \in loc[r].rows : TRUE
                  replaced == \E n \in users' : n.user_id = loc[r].id
                  deactivated == \E o \in users' : o.user_id = old.user_id /\ o.is_active = 0
              IN \/ deactivated /\ replaced
                 \/ old \in users' /\ ~replaced]_vars

(* C3: no step changes the manager_id of a row that stays in the table.     *)
C3_ManagerIdNeverChangesInPlace ==
    [][\A u \in users : \A v \in users' :
          v.user_id = u.user_id => v.manager_id = u.manager_id]_vars

(* C4: every row of users names a manager that is in the managers table and *)
(* active.                                                                  *)
C4_ManagerIdReferencesActiveManager ==
    \A u \in users : ActiveManager(u.manager_id)

(* C5: whenever the reassignment, with no statement of it failing for an    *)
(* outside reason, inserts its replacement row, the row it read is still    *)
(* stored, is inactive with the updated_at this request wrote, and has the  *)
(* full_name, mob_num and pan_num of the replacement.                       *)
C5_ReassignmentIsOneUnitOfWork ==
    [][\A r \in Slots :
          (Leaves(r, "history_insert") /\ ~fault'[r]
             /\ \E n \in users' : n.user_id = loc[r].id) =>
              LET old == CHOOSE u \in loc[r].rows : TRUE
                  new == CHOOSE n \in users' : n.user_id = loc[r].id
              IN \E o \in users' :
                    /\ o.user_id = old.user_id
                    /\ o.is_active = 0
                    /\ o.updated_at = loc[r].t1
                    /\ o.full_name = new.full_name
                    /\ o.mob_num = new.mob_num
                    /\ o.pan_num = new.pan_num]_vars

(* C6: a request is sent at most one response, and exactly one once its     *)
(* handler has finished.                                                    *)
C6_ExactlyOneResponse ==
    \A r \in Slots :
        /\ Len(responses[r]) <= 1
        /\ pc[r] = "done" => Len(responses[r]) = 1

(* C7: an update_user whose payload passes validation, names more than one  *)
(* target id and is not exactly {manager_id} is answered at once with 400   *)
(* UnsupportedBulkOperation, and users and managers are unchanged.          *)
C7_Applies(r) ==
    /\ Handles(r, "update_user")
    /\ {"user_ids", "update_data"} \subseteq DOMAIN req[r].body
    /\ DOMAIN req[r].body.update_data \subseteq validUpdateKeys
    /\ DOMAIN req[r].body.update_data # {}
    /\ \A key \in DOMAIN req[r].body.update_data :
          updateFieldValid(req[r].body.update_data, key)
    /\ Len(req[r].body.user_ids) > 1
    /\ DOMAIN req[r].body.update_data # {"manager_id"}

C7_UnsupportedBulkOperation ==
    [][\A r \in Slots :
          (C7_Applies(r) /\ Leaves(r, "routed")) =>
              /\ pc'[r] = "done"
              /\ Len(responses'[r]) = 1
              /\ LastResp(responses'[r]).status = 400
              /\ LastResp(responses'[r]).kind = "UnsupportedBulkOperation"
              /\ users' = users
              /\ managers' = managers]_vars

C7_Witness ==
    \E r \in Slots :
        /\ pc[r] = "done"
        /\ Len(responses[r]) = 1
        /\ responses[r][1].kind = "UnsupportedBulkOperation"

(* C8: an update_user with payload exactly {manager_id: M}, M an active     *)
(* manager, and more than one target id runs the bulk statement; unless the *)
(* store itself fails, it succeeds (also with count 0), exactly the rows    *)
(* whose user_id is listed get manager_id = M, active or not, no other      *)
(* column but updated_at and no other row changes, and the count reported   *)
(* is the number of rows changed.  A store failure changes nothing.         *)
C8_Applies(r) ==
    /\ DOMAIN req[r].body.update_data = {"manager_id"}
    /\ ActiveManager(req[r].body.update_data.manager_id)
    /\ Len(req[r].body.user_ids) > 1

C9_CreateRejectsBadManager ==
    [][\A r \in Slots :
          /\ (Handles(r, "create_user") /\ Leaves(r, "routed")) =>
                /\ users' = users
                /\ pc'[r] \in {"done", "create_manager"}
          /\ (Leaves(r, "create_manager") /\ ~ActiveManager(req[r].body.manager_id)) =>
                /\ pc'[r] = "done"
                /\ users' = users
                /\ Len(responses'[r]) = 1
                /\ IF fault'[r]
                   THEN LastResp(responses'[r]).status = 500
                   ELSE /\ LastResp(responses'[r]).status = 400
                        /\ LastResp(responses'[r]).kind = "ManagerInactiveOrMissing"]_vars

C9_Witness ==
    \E r \in Slots :
        /\ pc[r] = "done"
        /\ ~fault[r]
        /\ Len(responses[r]) = 1
        /\ responses[r][1].op = "create_user"
        /\ responses[r][1].kind = "ManagerInactiveOrMissing"

(* C10: no two rows of users share a mob_num or a pan_num; and a create_user *)
(* insert or a single-user field update whose normalized mob_num or pan_num *)
(* is already held by another row is answered with an error and changes     *)
(* nothing.                                                                 *)
C10_NoDuplicates ==
    \A a \in users, b \in users :
        a # b => a.mob_num # b.mob_num /\ a.pan_num # b.pan_num

C10_TakenBy(tbl, user_id, fields) ==
    \E u \in tbl :
        /\ u.user_id # user_id
        /\ \/ "mob_num" \in DOMAIN fields /\ u.mob_num = fields.mob_num
           \/ "pan_num" \in DOMAIN fields /\ u.pan_num = fields.pan_num

C10_UniqueMobAndPan ==
    /\ []C10_NoDuplicates
    /\ [][\A r \in Slots :
            /\ (Leaves(r, "create_insert")
                  /\ C10_TakenBy(users, loc[r].id,
                        [mob_num |-> formatMobNum(req[r].body.mob_num),
                         pan_num |-> toUpperCase(req[r].body.pan_num)])) =>
                  /\ LastResp(responses'[r]).status >= 400
                  /\ users' = users
            /\ (Leaves(r, "field_run")
                  /\ C10_TakenBy(users, loc[r].id,
                        [f \in DOMAIN req[r].body.update_data \cap {"mob_num", "pan_num"} |->
                            updateFieldValue(req[r].body.update_data, f)])) =>
                  /\ LastResp(responses'[r]).status >= 400
                  /\ users' = users]_vars

C10_Witness ==
    \E r \in Slots :
        /\ pc[r] = "done"
        /\ ~fault[r]
        /\ Len(responses[r]) = 1
        /\ responses[r][1].op = "create_user"
        /\ responses[r][1].status = 500
        /\ users # {}

\* the defects of a create_user body that validation is to reject
C11_CreateFails(body) ==
    \/ {"full_name", "mob_num", "pan_num", "manager_id"} \ DOMAIN body # {}
    \/ isBlank(body.full_name)
    \/ Len(SelectSeq(body.mob_num, IsDigit)) < MobLen
    \/ ~panRegexTest(toUpperCase(body.pan_num))

\* the defects of an update_user body that validation is to reject
C11_UpdateFails(body) ==
    \/ {"user_ids", "update_data"} \ DOMAIN body # {}
    \/ LET d == body.update_data
       IN \/ DOMAIN d \ {"full_name", "mob_num", "pan_num", "manager_id"} # {}
          \/ DOMAIN d = {}
          \/ "full_name" \in DOMAIN d /\ isBlank(d.full_name)
          \/ "mob_num" \in DOMAIN d /\ Len(SelectSeq(d.mob_num, IsDigit)) < MobLen
          \/ "pan_num" \in DOMAIN d /\ ~panRegexTest(toUpperCase(d.pan_num))

\* C11: a create_user or update_user request that fails validation (a required
\* key missing, a blank full_name, a mob_num with fewer than 10 digits, a
\* pan_num off the pattern, an unknown update key, no update field at all) is
\* answered 400 by the handler's first step: it ends there, with one response,
\* no statement queued, and the users and managers tables as they were.
C11_ValidationBeforeStore ==
    [][\A r \in Slots :
        (/\ Leaves(r, "routed")
         /\ \/ req[r].op = "create_user" /\ C11_CreateFails(req[r].body)
            \/ req[r].op = "update_user" /\ C11_UpdateFails(req[r].body)) =>
            /\ pc'[r] = "done"
            /\ Len(responses'[r]) = 1
            /\ responses'[r][1].status = 400
            /\ users' = users
            /\ managers' = managers]_vars

\* a request was turned away by validation while the table held a row
C11_Witness ==
    \E r \in Slots :
        /\ pc[r] = "done"
        /\ Len(responses[r]) = 1
        /\ responses[r][1].op \in {"create_user", "update_user"}
        /\ responses[r][1].kind = "ValidationError"
        /\ users # {}

\* C12: whatever the table holds and whichever of the filters user_id, mob_num
\* and manager_id the request carries, the rows get_users answers with are rows
\* of the table whose is_active is 1; a request with no filter is answered with
\* exactly the active rows.
C12_GetUsersOnlyActive ==
    [][\A r \in Slots :
        (Leaves(r, "users_all") /\ ~fault'[r]) =>
            LET rows == LastResp(responses'[r]).rows
            IN /\ LastResp(responses'[r]).status = 200
               /\ rows \subseteq users
               /\ \A u \in rows : u.is_active = 1
               /\ (DOMAIN req[r].body \cap {"user_id", "mob_num", "manager_id"} = {}) =>
                     rows = {u \in users : u.is_active = 1}]_vars

\* get_users was answered while the table held an inactive row, and left it out
C12_Witness ==
    \E r \in Slots :
        /\ pc[r] = "done"
        /\ Len(responses[r]) = 1
        /\ responses[r][1].op = "get_users"
        /\ responses[r][1].status = 200
        /\ \E u \in users : u.is_active = 0
        /\ \A u \in responses[r][1].rows : u.is_active = 1

\* C13: a delete_user naming a user_id no row has is answered 404 and leaves
\* the table as it was; a delete_user by mob_num removes the rows whose stored
\* mob_num is the normal form of the value sent (its digits, the last 10 of
\* them) and no other row, answering 200 when a row went and 404 when none did.
C13_DeleteByIdOrMobNum ==
    [][\A r \in Slots :
        (Leaves(r, "delete_run") /\ ~fault'[r]) =>
            LET body == req[r].body
                byId == "user_id" \in DOMAIN body /\ Truthy(body.user_id)
                answer == LastResp(responses'[r]).status
            IN /\ (byId /\ body.user_id \notin IdsOf(users)) =>
                     answer = 404 /\ users' = users
               /\ ~byId =>
                     /\ users' = {u \in users : u.mob_num # formatMobNum(body.mob_num)}
                     /\ Cardinality(users \ users') <= 1
                     /\ answer = IF users' = users THEN 404 ELSE 200]_vars

\* a delete_user by mob_num, sent in a raw form, removed the second user and
\* left the first: no delete_user request names the id u2, and the id u2 was
\* handed out, so the row that went was found by its mob_num
C13_Witness ==
    \E r \in Slots :
        /\ pc[r] = "done"
        /\ ~fault[r]
        /\ Len(responses[r]) = 1
        /\ responses[r][1].op = "delete_user"
        /\ responses[r][1].status = 200
        /\ nextId = 3
        /\ \A b \in DeleteBodies : "user_id" \in DOMAIN b => b.user_id # "u2"
        /\ \E u \in users : u.user_id = "u1" /\ u.mob_num = MobA /\ u.is_active = 1
        /\ Cardinality(users) = 1

\* st is the normal form of the mob_num raw: 10 digits, the last 10 of raw's digits
C14_NormalMobNum(st, raw) ==
    /\ Len(st) = 10
    /\ \A i \in 1..Len(st) : st[i] \in Digits
    /\ isSuffix(st, SelectSeq(raw, LAMBDA c : c \in Digits))

\* st is the normal form of the pan_num raw: raw with its letters in upper case
C14_NormalPanNum(st, raw) ==
    /\ Len(st) = Len(raw)
    /\ \A i \in 1..Len(st) :
          \/ st[i] = raw[i] /\ raw[i] \in UpperSet \cup Digits
          \/ \E k \in 1..Len(LowerLetters) : raw[i] = LowerLetters[k] /\ st[i] = UpperLetters[k]

\* every row's mob_num is 10 digits, its pan_num 5 capitals, 4 digits, 1 capital
C14_StoredWellFormed ==
    \A u \in users :
        /\ Len(u.mob_num) = 10
        /\ \A i \in 1..10 : u.mob_num[i] \in Digits
        /\ Len(u.pan_num) = 10
        /\ \A i \in (1..5) \cup {10} : u.pan_num[i] \in UpperSet
        /\ \A i \in 6..9 : u.pan_num[i] \in Digits

\* C14: in every reachable state each stored row has a mob_num of exactly 10
\* digits and a pan_num of 5 upper-case letters, 4 digits and 1 upper-case
\* letter; a row inserted by create_user, and a row rewritten by an update_user
\* carrying mob_num or pan_num, holds the normal form of the value sent (the
\* last 10 of its digits; its letters in upper case).
C14_StoredValuesNormalized ==
    /\ []C14_StoredWellFormed
    /\ [][\A r \in Slots :
            /\ (Leaves(r, "create_insert") /\ users' # users) =>
                  \E u \in users' \ users :
                      /\ u.user_id = loc[r].id
                      /\ C14_NormalMobNum(u.mob_num, req[r].body.mob_num)
                      /\ C14_NormalPanNum(u.pan_num, req[r].body.pan_num)
            /\ (Leaves(r, "field_run") /\ users' # users) =>
                  \E u \in users' \ users :
                      LET d == req[r].body.update_data
                      IN /\ u.user_id = loc[r].id
                         /\ "mob_num" \in DOMAIN d => C14_NormalMobNum(u.mob_num, d.mob_num)
                         /\ "pan_num" \in DOMAIN d => C14_NormalPanNum(u.pan_num, d.pan_num)]_vars

\* the row created from "+91-98765-43210" and "abcde1234f" holds their normal forms
C14_Witness ==
    \E u \in users : u.mob_num = MobA /\ u.pan_num = PanA /\ MobARaw # MobA /\ PanARaw # PanA

\* C15: the statement of the single-user field update changes nothing but
\* full_name, mob_num, pan_num and updated_at of the row its id names: that
\* row keeps its user_id, manager_id, created_at and is_active, every other
\* row stays as it was, and no row is added or removed.
C15_FieldUpdateFrame ==
    [][\A r \in Slots :
        Leaves(r, "field_run") =>
            /\ IdsOf(users') = IdsOf(users)
            /\ Cardinality(users') = Cardinality(users)
            /\ \A u \in users :
                  IF u.user_id = loc[r].id
                  THEN \E v \in users' :
                          /\ v.user_id = u.user_id
                          /\ SameExcept(u, v, {"full_name", "mob_num", "pan_num", "updated_at"})
                  ELSE u \in users']_vars

\* request r is an update_user naming exactly one id, past validation
C16_Applies(r) ==
    /\ req[r].op = "update_user"
    /\ pc[r] \in {"history_manager", "history_user", "field_run"}
    /\ Len(req[r].body.user_ids) = 1

\* request r is answered 404 by this step and the table is as it was
C16_NotFound(r) ==
    /\ pc'[r] = "done"
    /\ Len(responses'[r]) = 1
    /\ responses'[r][1].status = 404
    /\ responses'[r][1].kind = "NotFound"
    /\ users' = users

\* C16 as stated: an update_user with exactly one target id whose id matches no
\* row is answered 404 NotFound with the table unchanged, whatever its payload;
\* with the manager_id of an active manager it is answered the same way when
\* the matching row is inactive.
C16_NotFoundWhateverThePayload ==
    [][\A r \in Slots :
        (C16_Applies(r) /\ pc'[r] = "done" /\ ~fault'[r]) =>
            LET id == req[r].body.user_ids[1]
                d == req[r].body.update_data
            IN /\ id \notin IdsOf(users) => C16_NotFound(r)
               /\ (hasManagerId(d) /\ ActiveManager(d.manager_id)
                     /\ \E u \in users : u.user_id = id /\ u.is_active = 0) => C16_NotFound(r)]_vars

\* C16: an update_user with exactly one target id is answered 404 NotFound,
\* with the table unchanged, by its row statement: on the field-update path
\* when the id matches no row, and on the reassignment path when the id matches
\* no row or the matching row is inactive. The reassignment looks its manager
\* up first: a manager_id that names no active manager is answered 400
\* ManagerInactiveOrMissing before the row is looked at, and an active one
\* lets the request go on to the row lookup.
C16_NotFoundAfterManagerCheck ==
    [][\A r \in Slots :
        (C16_Applies(r) /\ ~fault'[r]) =>
            LET id == req[r].body.user_ids[1]
                d == req[r].body.update_data
            IN /\ Leaves(r, "history_manager") =>
                     IF ActiveManager(d.manager_id)
                     THEN pc'[r] = "history_user" /\ users' = users
                     ELSE /\ pc'[r] = "done"
                          /\ LastResp(responses'[r]).status = 400
                          /\ LastResp(responses'[r]).kind = "ManagerInactiveOrMissing"
                          /\ users' = users
               /\ (Leaves(r, "history_user")
                     /\ \A u \in users : u.user_id = id => u.is_active = 0) => C16_NotFound(r)
               /\ (Leaves(r, "field_run") /\ id \notin IdsOf(users)) => C16_NotFound(r)]_vars

\* an update_user was answered NotFound while the only row was inactive
C16_Witness ==
    \E r \in Slots :
        /\ pc[r] = "done"
        /\ ~fault[r]
        /\ Len(responses[r]) = 1
        /\ responses[r][1].op = "update_user"
        /\ responses[r][1].kind = "NotFound"
        /\ users # {}
        /\ \A u \in users : u.is_active = 0

\* the managers table holds the rows it was seeded with
C17_ManagersAsSeeded == managers = SeedManagers

\* C17: no step of any handler inserts, changes or deletes a row of managers:
\* in every reachable state the table holds the rows it was seeded with; and
\* get_managers answers with all of them, the inactive one included.
C17_ManagersReadOnly ==
    /\ []C17_ManagersAsSeeded
    /\ [][/\ managers' = managers
          /\ \A r \in Slots :
                (Leaves(r, "managers_all") /\ ~fault'[r]) =>
                    /\ LastResp(responses'[r]).status = 200
                    /\ LastResp(responses'[r]).rows = managers
                    /\ \E m \in LastResp(responses'[r]).rows : m.is_active = 0]_vars

\* get_managers was answered, after the users table was written, with the
\* three seeded managers
C17_Witness ==
    \E r \in Slots :
        /\ pc[r] = "done"
        /\ Len(responses[r]) = 1
        /\ responses[r][1].op = "get_managers"
        /\ responses[r][1].status = 200
        /\ Cardinality(responses[r][1].rows) = 3
        /\ users # {}

\* C18: is_active of a row is monotone: no step takes a row, identified by its
\* user_id, from is_active = 0 to is_active = 1; over any interleaving of
\* requests a row that is inactive stays inactive for as long as it is stored.
C18_ActiveFlagMonotone ==
    [][\A u \in users : \A v \in users' :
          (v.user_id = u.user_id /\ u.is_active = 0) => v.is_active = 0]_vars

\* a row deactivated by a reassignment was written again, by a bulk
\* reassignment to m2, and is still inactive
C18_Witness ==
    \E u \in users :
        /\ u.is_active = 0
        /\ u.manager_id = "m2"
        /\ u.updated_at > u.created_at

\* C19: once a delete_user for a user has been answered with success, no later
\* state holds a row carrying that user's mob_num or pan_num, unless a
\* create_user has inserted it since; this also while an update_user that
\* reassigns the same user is in flight.
C19_DeleteIsFinal == CarriedBy(users) = {}

====
